---- MODULE Spec2Model ----
(***************************************************************************)
(* Keyword-context extraction (contextParser.py) and FinBERT sentiment     *)
(* scoring (sentimentAnalyzer.py) as a state machine.                      *)
(*                                                                         *)
(* A Python str is modelled as a sequence of pieces: word tokens and the   *)
(* separator " ".  The empty str is << >>.  A dict is a function whose     *)
(* domain is its set of keys.                                              *)
(***************************************************************************)
EXTENDS Integers, Sequences, FiniteSets, TLC

VARIABLES
    pc,               \* which function is running / has returned
    keywords,         \* argument `keywords`
    words_before,     \* argument `words_before`
    words_after,      \* argument `words_after`
    articles,         \* argument `articles` (one element for a direct call)
    idx,              \* articles consumed by the loop of parse_all_articles
    all_contexts,     \* parse_article_for_keywords: all_contexts of the last article
    merged_contexts,  \* parse_article_for_keywords: merged_contexts of the last article
    parsed,           \* return value of the last parse_article_for_keywords
    parsed_articles,  \* parse_all_articles: parsed_articles
    data,             \* process_articles / print_summary: data
    finbert,          \* the loaded model: text -> class probabilities
    ai,               \* process_articles: outer loop index i
    cj,               \* process_articles: inner loop index j
    backend_calls,    \* invocations of analyze_with_finbert so far
    warnings,         \* "Warning: Empty context" lines printed so far
    text,             \* argument `text` of a direct analyze_with_finbert call
    result,           \* return value of a direct analyze_with_finbert call
    summary,          \* what print_summary computed
    error             \* the exception that ended the run, or "none"

vars == <<pc, keywords, words_before, words_after, articles, idx, all_contexts,
          merged_contexts, parsed, parsed_articles, data, finbert, ai, cj,
          backend_calls, warnings, text, result, summary, error>>

parserVars == <<keywords, words_before, words_after, articles, idx, all_contexts,
                merged_contexts, parsed, parsed_articles>>

sentimentVars == <<data, finbert, ai, cj, backend_calls, warnings, text, result, summary>>

(***************************************************************************)
(* Program constants                                                       *)
(***************************************************************************)
WORDS_BEFORE == 40

WORDS_AFTER == 40

KEYWORDS == <<"transnistria", "Trans-Dniester">>

(***************************************************************************)
(* Bounds of the model                                                     *)
(***************************************************************************)
\* keyword occurrences in one article
MaxMatches == 3

\* articles in one batch handed to parse_all_articles / process_articles
MaxArticles == 2

\* word tokens of a non-empty article
DocLen == 130

\* contexts of one article handed to process_articles
MaxContexts == 2

\* class probabilities are multiples of 1/ProbScale
ProbScale == 20

(***************************************************************************)
(* Python built-ins                                                        *)
(***************************************************************************)
None == "None"

Max(a, b) == IF a >= b THEN a ELSE b

Min(a, b) == IF a <= b THEN a ELSE b

\* d.get(k, default)
Get(d, k, default) == IF k \in DOMAIN d THEN d[k] ELSE default

\* d[k] = v
Put(d, k, v) == [x \in (DOMAIN d) \cup {k} |-> IF x = k THEN v ELSE d[x]]

\* s[a:b], Python slice semantics: a negative index counts from the end
SliceIndex(n, k) == IF k < 0 THEN Max(n + k, 0) ELSE Min(k, n)

PySlice(s, a, b) == SubSeq(s, SliceIndex(Len(s), a) + 1, SliceIndex(Len(s), b))

\* ' '.join(parts), every part a str
RECURSIVE StrJoin(_)
StrJoin(parts) ==
    IF parts = << >> THEN << >>
    ELSE IF Len(parts) = 1 THEN parts[1]
    ELSE LET h == Len(parts) \div 2
         IN StrJoin(SubSeq(parts, 1, h)) \o <<" ">> \o StrJoin(SubSeq(parts, h + 1, Len(parts)))

\* a list of word tokens as a list of one-token strs
AsStrs(ws) == [i \in 1..Len(ws) |-> <<ws[i]>>]

\* str.lower() over the vocabulary of the model
Lower(w) ==
    CASE w = "Transnistria"   -> "transnistria"
      [] w = "TRANSNISTRIA"   -> "transnistria"
      [] w = "Trans-Dniester" -> "trans-dniester"
      [] OTHER                -> w

\* re.findall(r'\b[\w-]+\b', text): the word tokens, separators dropped
FindAll(txt) == SelectSeq(txt, LAMBDA t : t # " ")

RECURSIVE SumValues(_, _)
SumValues(d, keys) ==
    IF keys = {} THEN 0
    ELSE LET k == CHOOSE x \in keys : TRUE
         IN d[k] + SumValues(d, keys \ {k})

(***************************************************************************)
(* contextParser.py                                                        *)
(***************************************************************************)
extract_keyword_context(txt, keyword, wb, wa) ==
    LET words == FindAll(txt)
        hits  == SelectSeq([i \in 1..Len(words) |-> i - 1],
                           LAMBDA i : Lower(keyword) = Lower(words[i + 1]))
    IN [k \in 1..Len(hits) |-> [keyword |-> keyword, position |-> hits[k]]]

\* sorted(contexts, key=lambda x: x['position']): stable
RECURSIVE InsertByPosition(_, _)
InsertByPosition(sorted, x) ==
    IF sorted = << >> THEN <<x>>
    ELSE IF sorted[Len(sorted)].position <= x.position THEN Append(sorted, x)
    ELSE Append(InsertByPosition(SubSeq(sorted, 1, Len(sorted) - 1), x),
                sorted[Len(sorted)])

RECURSIVE SortFrom(_, _)
SortFrom(contexts, acc) ==
    IF contexts = << >> THEN acc
    ELSE SortFrom(Tail(contexts), InsertByPosition(acc, Head(contexts)))

\* mutant: the list is merged in the order given
SortByPositionSkipped(contexts) == contexts

SortByPosition(contexts) == SortFrom(contexts, << >>)

IntervalStart(ctx) == ctx.position - WORDS_BEFORE

IntervalEnd(ctx) == ctx.position + WORDS_AFTER

\* current = ctx.copy(); current['keywords_found'] = ...; ['start']; ['end']
NewCurrent(ctx) ==
    Put(Put(Put(ctx, "keywords_found", <<ctx.keyword>>),
            "start", IntervalStart(ctx)),
        "end", IntervalEnd(ctx))

\* mutant: windows that share one position are kept apart
OverlapsStrictly(next_start, current) == next_start < current.end

\* mutant: windows that are adjacent without sharing a position are merged
OverlapsOrAdjacent(next_start, current) == next_start <= current.end + 1

Overlaps(next_start, current) == next_start <= current.end

\* mutant: the keyword of a merged match is not recorded
ExtendCurrentWithoutKeyword(current, next_ctx) ==
    [current EXCEPT !.end = Max(current.end, IntervalEnd(next_ctx))]

ExtendCurrent(current, next_ctx) ==
    [current EXCEPT !.end = Max(current.end, IntervalEnd(next_ctx)),
                    !.keywords_found = Append(@, next_ctx.keyword)]

RECURSIVE MergeLoop(_, _, _)
MergeLoop(rest, current, merged) ==
    IF rest = << >> THEN Append(merged, current)
    ELSE LET next_ctx == Head(rest)
         IN IF Overlaps(IntervalStart(next_ctx), current)
            THEN MergeLoop(Tail(rest), ExtendCurrent(current, next_ctx), merged)
            ELSE MergeLoop(Tail(rest), NewCurrent(next_ctx), Append(merged, current))

merge_overlapping_contexts(contexts) ==
    IF contexts = << >> THEN << >>
    ELSE LET sorted_contexts == SortByPosition(contexts)
         IN MergeLoop(Tail(sorted_contexts), NewCurrent(Head(sorted_contexts)), << >>)

\* the loop over keywords: all_contexts and keyword_counts
RECURSIVE KeywordLoop(_, _, _, _, _)
KeywordLoop(full_text, kws, wb, wa, acc) ==
    IF kws = << >> THEN acc
    ELSE LET contexts == extract_keyword_context(full_text, Head(kws), wb, wa)
         IN KeywordLoop(full_text, Tail(kws), wb, wa,
                [all_contexts   |-> acc.all_contexts \o contexts,
                 keyword_counts |-> Put(acc.keyword_counts, Head(kws), Len(contexts))])

FullText(article) == StrJoin(Get(article, "content", << >>))

CollectContexts(article, kws, wb, wa) ==
    KeywordLoop(FullText(article), kws, wb, wa,
                [all_contexts |-> << >>, keyword_counts |-> << >>])

\* mutant: the start index is not clamped to 0
ClampStartUnclamped(ctx) == ctx.start

ClampStart(ctx) == Max(0, ctx.start)

ClampEnd(words, ctx) == Min(Len(words), ctx.end + 1)

ContextText(words, ctx) ==
    StrJoin(AsStrs(PySlice(words, ClampStart(ctx), ClampEnd(words, ctx))))

FinalContexts(words, merged) ==
    [k \in 1..Len(merged) |-> [context |-> ContextText(words, merged[k])]]

parse_article_for_keywords(article, kws, wb, wa) ==
    LET collected == CollectContexts(article, kws, wb, wa)
        merged    == merge_overlapping_contexts(collected.all_contexts)
        words     == FindAll(FullText(article))
    IN [title          |-> Get(article, "title", None),
        url            |-> Get(article, "url", None),
        scraped_at     |-> Get(article, "scraped_at", None),
        keyword_counts |-> collected.keyword_counts,
        total_mentions |-> SumValues(collected.keyword_counts,
                                     DOMAIN collected.keyword_counts),
        contexts       |-> FinalContexts(words, merged)]

\* mutant: an article with a single mention is dropped
HasSeveralMentions(report) == report.total_mentions > 1

HasMentions(report) == report.total_mentions > 0

(***************************************************************************)
(* sentimentAnalyzer.py                                                    *)
(***************************************************************************)
\* np.argmax(probs): the first index of the largest element, 0-based
ArgMax(probs) ==
    CHOOSE i \in 0..(Len(probs) - 1) :
        /\ \A j \in 0..(Len(probs) - 1) : probs[j + 1] <= probs[i + 1]
        /\ \A j \in 0..(i - 1) : probs[j + 1] < probs[i + 1]

\* mutant: the score has the opposite sign
SentimentScoreReversed(pos_prob, neg_prob) == neg_prob - pos_prob

SentimentScore(pos_prob, neg_prob) == pos_prob - neg_prob

\* FinBERT labels: 0=positive, 1=negative, 2=neutral
Classification(max_idx) ==
    IF max_idx = 0 THEN "positive"
    ELSE IF max_idx = 1 THEN "negative"
    ELSE "neutral"

\* probs = softmax(logits of the model on txt), in units of 1/ProbScale
analyze_with_finbert(txt, model) ==
    LET probs    == model[txt]
        pos_prob == probs[1]
        neg_prob == probs[2]
        neu_prob == probs[3]
    IN [score          |-> SentimentScore(pos_prob, neg_prob),
        positive_prob  |-> pos_prob,
        negative_prob  |-> neg_prob,
        neutral_prob   |-> neu_prob,
        classification |-> Classification(ArgMax(probs))]

analyze_context_sentiments(context_text, model) == analyze_with_finbert(context_text, model)

ArticlesOf(d) == Get(d, "articles", << >>)

ContextsOf(article) == Get(article, "contexts", << >>)

\* if context_text: the truth value of a str
Truthy(s) == s # << >>

\* every context of every article, in order
RECURSIVE FlatContexts(_)
FlatContexts(arts) ==
    IF arts = << >> THEN << >>
    ELSE ContextsOf(Head(arts)) \o FlatContexts(Tail(arts))

TotalContexts(d) == Len(FlatContexts(ArticlesOf(d)))

\* the contexts print_summary aggregates: those with a sentiment_analysis
Analysed(d) ==
    SelectSeq(FlatContexts(ArticlesOf(d)),
              LAMBDA c : Get(c, "sentiment_analysis", << >>) # << >>)

ClassificationCounts(d) ==
    [c \in {"positive", "negative", "neutral"} |->
        Len(SelectSeq(Analysed(d), LAMBDA x : x.sentiment_analysis.classification = c))]

Scores(d) == [k \in 1..Len(Analysed(d)) |-> Analysed(d)[k].sentiment_analysis.score]

(***************************************************************************)
(* Inputs                                                                  *)
(***************************************************************************)
\* Where a keyword may occur.  6 and 6 + 80 give windows that touch in one
\* position, 5 and 6 + 80 windows that are adjacent without touching.
MatchPositions ==
    {0, 5, 6, 20, 6 + WORDS_BEFORE + WORDS_AFTER, 20 + WORDS_BEFORE + WORDS_AFTER + 1}

KeywordTokenAt(p) == IF p % 2 = 0 THEN "Transnistria" ELSE "Trans-Dniester"

DocWords(P) ==
    [i \in 1..DocLen |-> IF (i - 1) \in P THEN KeywordTokenAt(i - 1) ELSE ToString(i - 1)]

\* an article of two paragraphs with keyword tokens at the positions P
Article(P) ==
    LET w == DocWords(P)
        h == DocLen \div 2
    IN [title   |-> ToString(P),
        url     |-> "url",
        content |-> <<StrJoin(AsStrs(SubSeq(w, 1, h))),
                      StrJoin(AsStrs(SubSeq(w, h + 1, DocLen)))>>]

\* an article with an empty content list, and one with no content at all
EmptyArticles == {[title |-> "no paragraphs", content |-> << >>], [url |-> "url"]}

\* the articles a direct call of parse_article_for_keywords is given
ArticleSet ==
    {Article(P) : P \in {S \in SUBSET MatchPositions : Cardinality(S) <= MaxMatches}}
        \cup EmptyArticles

\* the articles a batch is made of
BatchPositions == {5, 6 + WORDS_BEFORE + WORDS_AFTER}

BatchArticles == {Article(P) : P \in SUBSET BatchPositions} \cup EmptyArticles

KeywordLists ==
    {KEYWORDS, <<"transnistria", "Transnistria">>, <<"transnistria", "transnistria">>}

PassedWindows == {<<2, 2>>, <<WORDS_BEFORE, WORDS_AFTER>>}

Batches == UNION {[1..n -> BatchArticles] : n \in 0..MaxArticles}

\* the text of one context as contextParser.py would materialize it
SampleText == <<"of", " ", "Transnistria", " ", "declared">>

Texts == {<< >>, SampleText}

ProbGrid ==
    {p \in (0..ProbScale) \X (0..ProbScale) \X (0..ProbScale) : p[1] + p[2] + p[3] = ProbScale}

OneHot == {p \in ProbGrid : \E i \in 1..3 : p[i] = ProbScale}

ContextLists == UNION {[1..n -> {[context |-> t] : t \in Texts}] : n \in 0..MaxContexts}

SentimentArticles ==
    {[title |-> "title", contexts |-> cs] : cs \in ContextLists} \cup {[title |-> "title"]}

SentimentInputs ==
    {[articles |-> as] : as \in UNION {[1..n -> SentimentArticles] : n \in 0..MaxArticles}}
        \cup {[parsed_at |-> "now"]}

(***************************************************************************)
(* State machine                                                           *)
(***************************************************************************)
InitParserVars(arts, kws, w) ==
    /\ articles = arts
    /\ keywords = kws
    /\ words_before = w[1]
    /\ words_after = w[2]
    /\ idx = 0
    /\ all_contexts = << >>
    /\ merged_contexts = << >>
    /\ parsed = None
    /\ parsed_articles = << >>

IdleSentimentVars ==
    /\ data = None
    /\ finbert = None
    /\ ai = 0
    /\ cj = 0
    /\ backend_calls = << >>
    /\ warnings = 0
    /\ text = None
    /\ result = None
    /\ summary = None

\* a caller calls parse_article_for_keywords(article, keywords, wb, wa)
InitParseArticle ==
    /\ pc = "parse_article_for_keywords"
    /\ \E a \in ArticleSet, kws \in KeywordLists, w \in PassedWindows :
           InitParserVars(<<a>>, kws, w)
    /\ IdleSentimentVars
    /\ error = "none"

\* a caller calls parse_all_articles(articles, keywords, wb, wa)
InitParseAll ==
    /\ pc = "parse_all_articles"
    /\ \E arts \in Batches, kws \in KeywordLists, w \in PassedWindows :
           InitParserVars(arts, kws, w)
    /\ IdleSentimentVars
    /\ error = "none"

IdleParserVars == InitParserVars(<< >>, << >>, <<0, 0>>)

\* sentimentAnalyzer.main calls process_articles(data), then print_summary
InitProcessArticles ==
    /\ pc = "process_articles"
    /\ data \in SentimentInputs
    /\ finbert \in [{SampleText} -> OneHot]
    /\ ai = 1
    /\ cj = 1
    /\ backend_calls = << >>
    /\ warnings = 0
    /\ text = None
    /\ result = None
    /\ summary = None
    /\ IdleParserVars
    /\ error = "none"

\* a caller calls analyze_with_finbert(text, model, tokenizer)
InitAnalyze ==
    /\ pc = "analyze_with_finbert"
    /\ text = SampleText
    /\ finbert \in [{SampleText} -> ProbGrid]
    /\ data = None
    /\ ai = 0
    /\ cj = 0
    /\ backend_calls = << >>
    /\ warnings = 0
    /\ result = None
    /\ summary = None
    /\ IdleParserVars
    /\ error = "none"

Init == InitParseArticle \/ InitParseAll \/ InitProcessArticles \/ InitAnalyze

\* what one call of parse_article_for_keywords leaves behind
ParseEffects(article) ==
    LET collected == CollectContexts(article, keywords, words_before, words_after)
    IN /\ all_contexts' = collected.all_contexts
       /\ merged_contexts' = merge_overlapping_contexts(collected.all_contexts)
       /\ parsed' = parse_article_for_keywords(article, keywords, words_before, words_after)

ParseArticle ==
    /\ pc = "parse_article_for_keywords"
    /\ ParseEffects(articles[1])
    /\ pc' = "returned_article"
    /\ UNCHANGED <<keywords, words_before, words_after, articles, idx, parsed_articles>>
    /\ UNCHANGED <<sentimentVars, error>>

\* one iteration of the loop of parse_all_articles
ParseAllStep ==
    /\ pc = "parse_all_articles"
    /\ idx < Len(articles)
    /\ ParseEffects(articles[idx + 1])
    /\ parsed_articles' = IF HasMentions(parsed') THEN Append(parsed_articles, parsed')
                          ELSE parsed_articles
    /\ idx' = idx + 1
    /\ UNCHANGED <<pc, keywords, words_before, words_after, articles>>
    /\ UNCHANGED <<sentimentVars, error>>

ParseAllReturn ==
    /\ pc = "parse_all_articles"
    /\ idx = Len(articles)
    /\ pc' = "returned_all"
    /\ UNCHANGED <<parserVars, sentimentVars, error>>

InLoop ==
    /\ pc = "process_articles"
    /\ ai <= Len(ArticlesOf(data))

CurrentContexts == ContextsOf(ArticlesOf(data)[ai])

\* the inner loop body, context_text non-empty
AnalyzeContext ==
    /\ InLoop
    /\ cj <= Len(CurrentContexts)
    /\ LET context_text == Get(CurrentContexts[cj], "context", << >>)
       IN /\ Truthy(context_text)
          /\ data' = [data EXCEPT !.articles[ai].contexts[cj] =
                         Put(@, "sentiment_analysis",
                             analyze_context_sentiments(context_text, finbert))]
          /\ backend_calls' = Append(backend_calls,
                                     [article |-> ai, context |-> cj, text |-> context_text])
    /\ cj' = cj + 1
    /\ UNCHANGED <<pc, finbert, ai, warnings, text, result, summary, error, parserVars>>

\* the inner loop body, context_text empty
WarnEmptyContext ==
    /\ InLoop
    /\ cj <= Len(CurrentContexts)
    /\ ~Truthy(Get(CurrentContexts[cj], "context", << >>))
    /\ warnings' = warnings + 1
    /\ cj' = cj + 1
    /\ UNCHANGED <<pc, data, finbert, ai, backend_calls, text, result, summary, error,
                   parserVars>>

NextArticle ==
    /\ InLoop
    /\ cj > Len(CurrentContexts)
    /\ ai' = ai + 1
    /\ cj' = 1
    /\ UNCHANGED <<pc, data, finbert, backend_calls, warnings, text, result, summary,
                   error, parserVars>>

ProcessArticlesReturn ==
    /\ pc = "process_articles"
    /\ ai > Len(ArticlesOf(data))
    /\ pc' = "print_summary"
    /\ UNCHANGED <<sentimentVars, error, parserVars>>

\* print_summary(data): the percentages divide by total_contexts
PrintSummary ==
    /\ pc = "print_summary"
    /\ IF TotalContexts(data) = 0
       THEN /\ error' = "ZeroDivisionError"
            /\ pc' = "raised"
            /\ UNCHANGED summary
       ELSE /\ summary' = [total_contexts        |-> TotalContexts(data),
                           classification_counts |-> ClassificationCounts(data),
                           scores                |-> Scores(data)]
            /\ pc' = "done"
            /\ UNCHANGED error
    /\ UNCHANGED <<data, finbert, ai, cj, backend_calls, warnings, text, result, parserVars>>

Analyze ==
    /\ pc = "analyze_with_finbert"
    /\ result' = analyze_with_finbert(text, finbert)
    /\ backend_calls' = Append(backend_calls, [article |-> 0, context |-> 0, text |-> text])
    /\ pc' = "returned_analysis"
    /\ UNCHANGED <<data, finbert, ai, cj, warnings, text, summary, error, parserVars>>

Next ==
    \/ ParseArticle
    \/ ParseAllStep
    \/ ParseAllReturn
    \/ AnalyzeContext
    \/ WarnEmptyContext
    \/ NextArticle
    \/ ProcessArticlesReturn
    \/ PrintSummary
    \/ Analyze

Spec == Init /\ [][Next]_vars

(***************************************************************************)
(* Properties                                                              *)
(***************************************************************************)
\* parse_article_for_keywords has returned at least once
ParsedOnce == pc = "returned_article" \/ idx > 0

\* process_articles was called
InSentimentStage == pc \in {"process_articles", "print_summary", "done", "raised"}

\* a direct call of analyze_with_finbert has returned
AnalyzeReturned == pc = "returned_analysis"

\* the article the last call of parse_article_for_keywords was given
LastArticle == IF pc = "returned_article" THEN articles[1] ELSE articles[idx]

LastWords == FindAll(FullText(LastArticle))

\* the integer positions a list of spans covers
Covered(spans) == UNION {spans[k].start .. spans[k].end : k \in 1..Len(spans)}

MatchPositionsOf(contexts) == {contexts[m].position : m \in 1..Len(contexts)}

\* the matches whose interval lies inside span k
Contributing(k) ==
    {m \in 1..Len(all_contexts) :
        /\ merged_contexts[k].start <= IntervalStart(all_contexts[m])
        /\ IntervalEnd(all_contexts[m]) <= merged_contexts[k].end}

Occurrences(seq, x) == Cardinality({i \in 1..Len(seq) : seq[i] = x})

\* C1: the intervals the merger works on are (position - wordsBefore,
\* position + wordsAfter) for the wordsBefore/wordsAfter the caller passed:
\* the merged spans cover exactly the union of those intervals, and with 2/2
\* the matches at 5, 6 and 20 give the two spans [3,8] (keywords of matches 5
\* and 6) and [18,22].
C1_PassedWindowsDecideTheIntervals ==
    ParsedOnce =>
        /\ Covered(merged_contexts) =
               UNION {(all_contexts[m].position - words_before) ..
                      (all_contexts[m].position + words_after) : m \in 1..Len(all_contexts)}
        /\ (/\ words_before = 2
            /\ words_after = 2
            /\ Len(all_contexts) = 3
            /\ MatchPositionsOf(all_contexts) = {5, 6, 20})
           => /\ Len(merged_contexts) = 2
              /\ merged_contexts[1].start = 3 /\ merged_contexts[1].end = 8
              /\ Len(merged_contexts[1].keywords_found) = 2
              /\ merged_contexts[2].start = 18 /\ merged_contexts[2].end = 22

\* C2: the spans merge_overlapping_contexts returns are sorted ascending by
\* start and pairwise disjoint: each span ends before the next one starts.
C2_SpansSortedAndDisjoint ==
    \A k \in 1..(Len(merged_contexts) - 1) :
        /\ merged_contexts[k].start < merged_contexts[k + 1].start
        /\ merged_contexts[k].end < merged_contexts[k + 1].start

\* C2 witness: a match list that is out of order was merged into two spans
\* or more.
C2_Witness ==
    /\ ParsedOnce
    /\ Len(merged_contexts) >= 2
    /\ \E m \in 1..(Len(all_contexts) - 1) :
           all_contexts[m].position > all_contexts[m + 1].position

\* C3: for a non-empty match list the positions the output spans cover are
\* exactly the positions the input intervals [position - WORDS_BEFORE,
\* position + WORDS_AFTER] cover, before any clamping.
C3_UnionPreserved ==
    (ParsedOnce /\ all_contexts # << >>) =>
        Covered(merged_contexts) =
            UNION {IntervalStart(all_contexts[m]) .. IntervalEnd(all_contexts[m]) :
                       m \in 1..Len(all_contexts)}

\* C3 witness: three matches were merged into two spans with a gap between
\* them, the first span starting below position 0.
C3_Witness ==
    /\ ParsedOnce
    /\ Len(all_contexts) = 3
    /\ Len(merged_contexts) = 2
    /\ merged_contexts[1].start < 0
    /\ merged_contexts[1].end + 1 < merged_contexts[2].start

\* C4: input absence is never a failure: with no documents, no matches or no
\* spans every stage ends normally, without raising.
C4_InputAbsenceIsNotAFailure ==
    (\/ InSentimentStage /\ TotalContexts(data) = 0
     \/ pc \in {"parse_all_articles", "returned_all"} /\ articles = << >>
     \/ ParsedOnce /\ all_contexts = << >>)
        => error = "none"

\* whether process_articles is past context c of article a
Processed(a, c) ==
    \/ pc # "process_articles"
    \/ a < ai
    \/ a = ai /\ c < cj

CallsFor(a, c) ==
    Cardinality({n \in 1..Len(backend_calls) :
                    backend_calls[n].article = a /\ backend_calls[n].context = c})

\* C5: process_articles never hands an empty span text to the backend and
\* records an explicit "no content" marker on that span's record; a non-empty
\* span text is scored exactly once and the result stored on the span.
C5_EmptySpanMarkedNonEmptyScoredOnce ==
    InSentimentStage =>
        \A a \in 1..Len(ArticlesOf(data)) :
            \A c \in 1..Len(ContextsOf(ArticlesOf(data)[a])) :
                LET span == ContextsOf(ArticlesOf(data)[a])[c]
                IN Processed(a, c) =>
                       IF span.context = << >>
                       THEN /\ CallsFor(a, c) = 0
                            /\ DOMAIN span # {"context"}
                       ELSE /\ CallsFor(a, c) = 1
                            /\ "sentiment_analysis" \in DOMAIN span
                            /\ span.sentiment_analysis =
                                   analyze_with_finbert(span.context, finbert)

\* C6 as stated: the keywords attached to a merged span have no repeated
\* element and are exactly the keywords of the matches merged into the span.
C6_KeywordsAreASet ==
    \A k \in 1..Len(merged_contexts) :
        LET found == merged_contexts[k].keywords_found
        IN /\ \A i, j \in 1..Len(found) : found[i] = found[j] => i = j
           /\ {found[i] : i \in 1..Len(found)} =
                  {all_contexts[m].keyword : m \in Contributing(k)}

\* C6 amended: keywords_found is a list with one entry per match merged into
\* the span: every keyword occurs in it as many times as contributing matches
\* carry it, so its values are exactly the contributing matches' keywords.
C6_KeywordsOnePerContributingMatch ==
    \A k \in 1..Len(merged_contexts) :
        LET found == merged_contexts[k].keywords_found
        IN /\ Len(found) = Cardinality(Contributing(k))
           /\ \A w \in {keywords[i] : i \in 1..Len(keywords)} :
                  Occurrences(found, w) =
                      Cardinality({m \in Contributing(k) : all_contexts[m].keyword = w})
           /\ \A i \in 1..Len(found) : \E m \in Contributing(k) :
                  all_contexts[m].keyword = found[i]

\* C6 witness: a span that merged two matches of the same keyword, next to a
\* span of a single match.
C6_Witness ==
    /\ ParsedOnce
    /\ \E k \in 1..Len(merged_contexts) :
           /\ Len(merged_contexts[k].keywords_found) = 2
           /\ merged_contexts[k].keywords_found[1] = merged_contexts[k].keywords_found[2]
    /\ \E k \in 1..Len(merged_contexts) : Len(merged_contexts[k].keywords_found) = 1

\* C7: the text of a merged span is the tokens at positions max(0, start) to
\* min(len - 1, end), in document order, joined by single spaces, and empty
\* when that range is empty; the slice bounds stay inside 0..len, so a match at
\* position 0 gives a text that begins with token 0.
C7_TextIsTheClampedTokenRange ==
    ParsedOnce =>
        /\ Len(parsed.contexts) = Len(merged_contexts)
        /\ \A k \in 1..Len(merged_contexts) :
               LET words == LastWords
                   a     == Max(0, merged_contexts[k].start)
                   b     == Min(Len(words) - 1, merged_contexts[k].end)
                   txt   == parsed.contexts[k].context
               IN /\ 0 <= ClampStart(merged_contexts[k])
                  /\ ClampEnd(words, merged_contexts[k]) <= Len(words)
                  /\ IF a > b THEN txt = << >>
                     ELSE /\ Len(txt) = 2 * (b - a + 1) - 1
                          /\ \A i \in 0..(b - a) : txt[2 * i + 1] = words[a + i + 1]
                          /\ \A i \in 1..(b - a) : txt[2 * i] = " "

\* C7 witness: a span of a match at position 0 (start below 0) whose text
\* begins with token 0, and a span that reaches past the last token.
C7_Witness ==
    /\ ParsedOnce
    /\ Len(merged_contexts) >= 2
    /\ merged_contexts[1].position = 0
    /\ merged_contexts[1].start = 0 - WORDS_BEFORE
    /\ parsed.contexts[1].context[1] = LastWords[1]
    /\ merged_contexts[Len(merged_contexts)].end >= Len(LastWords)

\* whether some token of the article equals some keyword, case-insensitively
Mentioned(article, kws) ==
    LET words == FindAll(FullText(article))
    IN \E i \in 1..Len(words), k \in 1..Len(kws) : Lower(words[i]) = Lower(kws[k])

\* C8: parse_all_articles returns exactly the reports with total_mentions > 0,
\* in input order: one report per article with a mention, none for the others.
C8_ExactlyTheArticlesWithMentions ==
    pc = "returned_all" =>
        LET reports == [i \in 1..Len(articles) |->
                           parse_article_for_keywords(articles[i], keywords,
                                                      words_before, words_after)]
            kept    == SelectSeq([i \in 1..Len(articles) |-> i],
                                 LAMBDA i : Mentioned(articles[i], keywords))
        IN /\ Len(parsed_articles) = Len(kept)
           /\ \A n \in 1..Len(kept) :
                  /\ parsed_articles[n] = reports[kept[n]]
                  /\ parsed_articles[n].total_mentions > 0
                  /\ parsed_articles[n].title = Get(articles[kept[n]], "title", None)

\* C8 witness: a batch of two articles of which the first has no mention and
\* was dropped and the second was kept.
C8_Witness ==
    /\ pc = "returned_all"
    /\ Len(articles) = 2
    /\ ~Mentioned(articles[1], keywords)
    /\ Len(parsed_articles) = 1
    /\ parsed_articles[1].title = articles[2].title

\* every result analyze_with_finbert has returned, with the probabilities it
\* was computed from
Analyses ==
    (IF AnalyzeReturned THEN {<<result, finbert[text]>>} ELSE {})
        \cup (IF InSentimentStage
              THEN {<<Analysed(data)[n].sentiment_analysis, finbert[Analysed(data)[n].context]>> :
                        n \in 1..Len(Analysed(data))}
              ELSE {})

ClassProb(probs, class) ==
    CASE class = "positive" -> probs[1]
      [] class = "negative" -> probs[2]
      [] class = "neutral"  -> probs[3]

\* C9: for class probabilities (pos, neg, neu) that sum to 1 the result has the
\* class of the largest probability and score = pos - neg, within [-1, 1];
\* (0.9, 0.05, 0.05) gives positive with score 0.85.  Probabilities and scores
\* are in units of 1/ProbScale.
C9_ArgmaxClassAndScore ==
    \A x \in Analyses :
        LET r == x[1]
            p == x[2]
        IN /\ r.classification \in {"positive", "negative", "neutral"}
           /\ \A i \in 1..3 : p[i] <= ClassProb(p, r.classification)
           /\ r.score = p[1] - p[2]
           /\ 0 - ProbScale <= r.score /\ r.score <= ProbScale
           /\ (20 * p[1] = 18 * ProbScale /\ 20 * p[2] = ProbScale /\ 20 * p[3] = ProbScale)
              => (r.classification = "positive" /\ 20 * r.score = 17 * ProbScale)

\* C9 witness: the distribution (0.9, 0.05, 0.05) was scored.
C9_Witness ==
    /\ AnalyzeReturned
    /\ 20 * finbert[text][1] = 18 * ProbScale
    /\ 20 * finbert[text][2] = ProbScale
    /\ result.classification = "positive"
    /\ 20 * result.score = 17 * ProbScale

\* the match intervals are in ascending order with every start beyond the
\* previous end
DisjointSorted(contexts) ==
    \A m \in 1..(Len(contexts) - 1) :
        IntervalStart(contexts[m + 1]) > IntervalEnd(contexts[m])

RECURSIVE KeywordEntries(_)
KeywordEntries(spans) ==
    IF spans = << >> THEN 0
    ELSE Len(Head(spans).keywords_found) + KeywordEntries(Tail(spans))

\* C11: for every article and keyword list (duplicates and casing variants
\* allowed) total_mentions equals the number of match records collected for
\* the article and handed to the merger, which equals the number of keyword
\* entries summed over the merged spans.
C11_TotalMentionsCountsTheMatches ==
    ParsedOnce =>
        /\ parsed.total_mentions = Len(all_contexts)
        /\ Len(all_contexts) = KeywordEntries(merged_contexts)

====
